---- MODULE Spec2Model ----
(***************************************************************************)
(* The live session relay of src/main.py: start_agent_session and the      *)
(* websocket_endpoint handler with its two relay loops                     *)
(* (handle_websocket_messages, receive_and_process_responses) run in one   *)
(* asyncio.TaskGroup.                                                      *)
(*                                                                         *)
(* Library behaviour the model relies on:                                  *)
(*  - InMemoryRunner(...) builds its own in-memory session service, which  *)
(*    starts empty; start_agent_session builds one runner per call.        *)
(*  - asyncio.TaskGroup cancels the remaining tasks only when a task       *)
(*    raises; a task that returns normally cancels nothing. The group      *)
(*    re-raises task errors wrapped in an ExceptionGroup.                  *)
(*  - asyncio.CancelledError is a BaseException: "except Exception" does   *)
(*    not catch it.                                                        *)
(*  - WebSocket.receive_text raises WebSocketDisconnect once the client    *)
(*    has gone; WebSocket.send_text to a gone client raises                *)
(*    WebSocketDisconnect.                                                 *)
(***************************************************************************)
EXTENDS Integers, Sequences, FiniteSets, TLC

\* Connections (one websocket_endpoint invocation each) and client keys.
Conns == {1, 2}
Users == {"u1", "u2"}

\* Bounds of the two specifications.
MaxEvents == 3
MaxMsgs == 3
MaxCoreEvents == 1
MaxCoreMsgs == 1
MaxStoreIds == 5
MaxRuns == 2
MaxCharts == 2

VARIABLES
    hpc,        \* handler position: idle, bound, relaying, closed, aborted
    user,       \* user_id of the connection
    force,      \* force_new_session of the connection
    sess,       \* session.id the connection is bound to (0: none)
    services,   \* per runner (one per connection): sessions of its session service
    nextId,     \* next fresh session id
    clientOpen, \* the client end of the websocket is still connected
    inPc,       \* handle_websocket_messages: none, receiving, returned, cancelled
    outPc,      \* receive_and_process_responses: none, running, sending,
                \* returned, raised
    outErr,     \* the exception receive_and_process_responses raised
    cancelReq,  \* the TaskGroup has called cancel() on the inbound task
    events,     \* agent events taken from live_events so far
    msgs,       \* client messages taken from websocket.receive_text so far
    wire,       \* frames delivered to the client by websocket.send_text
    queue,      \* items put into live_request_queue
    closes,     \* number of live_request_queue.close() calls
    log,        \* logger calls made for the connection (tags)
    shutdown_signal, \* the global asyncio.Event shutdown_signal is set
    last_chart_info, \* tools._last_chart_info (NoChart: None)
    runs,       \* per session: the agent run in progress and its callback
    artifacts,  \* per session: the artifacts saved into its context, in order
    state,      \* per session: last_artifact and artifact_created of its state
    nextChart   \* number of the next chart rendered

vars == <<hpc, user, force, sess, services, nextId, clientOpen, inPc, outPc,
          outErr, cancelReq, events, msgs, wire, queue, closes, log,
          shutdown_signal, last_chart_info, runs, artifacts, state, nextChart>>

(***************************************************************************)
(* Session service of one runner, and start_agent_session.                 *)
(***************************************************************************)

\* InMemoryRunner(app_name, agent): the runner's session service holds nothing.
NewRunnerSessions == {}

\* session_service.list_sessions(app_name, user_id).sessions
ListSessions(store, u) == {s \in store : s.user = u}

\* Mutant of CreateSession: the session is returned but not kept.
CreateSessionNotStored(store, u, newId) == store

\* session_service.create_session(app_name, user_id) with the fresh id newId
CreateSession(store, u, newId) == store \cup {[user |-> u, id |-> newId]}

\* Mutant of DeleteExisting: the loop stops after the first session.
DeleteExistingFirstOnly(store, existing, delFails) ==
    store \ {s \in existing : /\ s.id \notin delFails
                              /\ \A t \in existing : s.id <= t.id}

\* The loop over sessions_response.sessions: each delete_session call that
\* raises (ids in delFails) is logged as a warning and skipped.
DeleteExisting(store, existing, delFails) ==
    store \ {s \in existing : s.id \notin delFails}

\* Mutant of StartAgentSession: the clean-up branch creates the fresh
\* session without deleting the existing ones.
StartAgentSessionKeepsOld(store, u, forceNew, listFails, delFails, newId) ==
    IF listFails
    THEN [store |-> CreateSession(store, u, newId), session |-> newId,
          created |-> TRUE, path |-> "fallback"]
    ELSE LET existing == ListSessions(store, u) IN
         IF forceNew \/ Cardinality(existing) > 1
         THEN [store |-> CreateSession(store, u, newId),
               session |-> newId, created |-> TRUE, path |-> "fresh"]
         ELSE IF Cardinality(existing) = 1
         THEN [store |-> store,
               session |-> (CHOOSE s \in existing : TRUE).id,
               created |-> FALSE, path |-> "reuse"]
         ELSE [store |-> CreateSession(store, u, newId), session |-> newId,
               created |-> TRUE, path |-> "create"]

\* start_agent_session(user_id, force_new_session) on a runner whose session
\* service holds `store`. listFails: list_sessions raises. Result: the
\* service afterwards, the id of the returned session, whether it was created.
StartAgentSession(store, u, forceNew, listFails, delFails, newId) ==
    IF listFails
    THEN [store |-> CreateSession(store, u, newId), session |-> newId,
          created |-> TRUE, path |-> "fallback"]
    ELSE LET existing == ListSessions(store, u) IN
         IF forceNew \/ Cardinality(existing) > 1
         THEN [store |-> CreateSession(DeleteExisting(store, existing, delFails),
                                       u, newId),
               session |-> newId, created |-> TRUE, path |-> "fresh"]
         ELSE IF Cardinality(existing) = 1
         THEN [store |-> store,
               session |-> (CHOOSE s \in existing : TRUE).id,
               created |-> FALSE, path |-> "reuse"]
         ELSE [store |-> CreateSession(store, u, newId), session |-> newId,
               created |-> TRUE, path |-> "create"]

(***************************************************************************)
(* Client messages and handle_websocket_messages' treatment of one.        *)
(***************************************************************************)

\* base64.b64decode / base64.b64encode on the payloads the model uses.
B64Decode(x) == CASE x = "AQI=" -> "0102"
                  [] x = "/9g=" -> "ffd8"
                  [] OTHER -> "00"

B64Encode(x) == CASE x = "0102" -> "AQI="
                  [] x = "ffd8" -> "/9g="
                  [] OTHER -> "AA=="

\* A text frame from the client: valid JSON or not, its mime_type ("None":
\* the key is missing) and its data.
MsgText     == [json |-> TRUE,  mime_type |-> "text/plain", data |-> "hi"]
MsgAudio    == [json |-> TRUE,  mime_type |-> "audio/pcm;rate=16000", data |-> "AQI="]
MsgImage    == [json |-> TRUE,  mime_type |-> "image/jpeg", data |-> "/9g="]
MsgUnknown  == [json |-> TRUE,  mime_type |-> "video/mp4", data |-> "AQI="]
MsgNoType   == [json |-> TRUE,  mime_type |-> "None", data |-> "hi"]
MsgBadJson  == [json |-> FALSE, mime_type |-> "None", data |-> "{"]

Messages == {MsgText, MsgAudio, MsgImage, MsgUnknown, MsgNoType, MsgBadJson}
CoreMessages == {MsgText, MsgBadJson, MsgUnknown}

\* str.startswith("audio/pcm") on the mime types above
StartsWithAudioPcm(mt) == mt \in {"audio/pcm", "audio/pcm;rate=16000"}

\* Mutant of HandleMessage: audio and image payloads are forwarded as
\* received, without base64 decoding.
HandleMessageUndecoded(m) ==
    IF ~m.json
    THEN [put |-> <<>>, log |-> {"error:invalid_json"}, continue |-> TRUE]
    ELSE IF m.mime_type = "None"
    THEN [put |-> <<>>, log |-> {"error:processing_message"}, continue |-> TRUE]
    ELSE IF StartsWithAudioPcm(m.mime_type) \/ m.mime_type = "image/jpeg"
    THEN [put |-> <<[kind |-> "realtime", mime_type |-> m.mime_type,
                     data |-> m.data]>>,
          log |-> {}, continue |-> TRUE]
    ELSE IF m.mime_type = "text/plain"
    THEN [put |-> <<[kind |-> "content", role |-> "user", text |-> m.data]>>,
          log |-> {}, continue |-> TRUE]
    ELSE [put |-> <<>>, log |-> {}, continue |-> TRUE]

\* Mutant of HandleMessage: invalid JSON breaks out of the loop.
HandleMessageBreaksOnBadJson(m) ==
    IF ~m.json
    THEN [put |-> <<>>, log |-> {"error:invalid_json"}, continue |-> FALSE]
    ELSE IF m.mime_type = "text/plain"
    THEN [put |-> <<[kind |-> "content", role |-> "user", text |-> m.data]>>,
          log |-> {}, continue |-> TRUE]
    ELSE [put |-> <<>>, log |-> {}, continue |-> TRUE]

\* One pass of the loop body for message m: what is put into
\* live_request_queue, what is logged, and whether the loop goes on.
HandleMessage(m) ==
    IF ~m.json
    THEN [put |-> <<>>, log |-> {"error:invalid_json"}, continue |-> TRUE]
    ELSE IF m.mime_type = "None"
    THEN [put |-> <<>>, log |-> {"error:processing_message"}, continue |-> TRUE]
    ELSE IF StartsWithAudioPcm(m.mime_type)
    THEN [put |-> <<[kind |-> "realtime", mime_type |-> m.mime_type,
                     data |-> B64Decode(m.data)]>>,
          log |-> {}, continue |-> TRUE]
    ELSE IF m.mime_type = "image/jpeg"
    THEN [put |-> <<[kind |-> "realtime", mime_type |-> "image/jpeg",
                     data |-> B64Decode(m.data)]>>,
          log |-> {}, continue |-> TRUE]
    ELSE IF m.mime_type = "text/plain"
    THEN [put |-> <<[kind |-> "content", role |-> "user", text |-> m.data]>>,
          log |-> {}, continue |-> TRUE]
    ELSE [put |-> <<>>, log |-> {}, continue |-> TRUE]

(***************************************************************************)
(* Agent events and receive_and_process_responses' treatment of one.       *)
(***************************************************************************)

Event(tc, intr, partial, role, kind, payload) ==
    [turn_complete |-> tc, interrupted |-> intr, partial |-> partial,
     role |-> role, kind |-> kind, payload |-> payload]

EvPartialH    == Event(FALSE, FALSE, TRUE,  "model", "text",  "h")
EvPartialHi   == Event(FALSE, FALSE, TRUE,  "model", "text",  "hi")
EvFinalHi     == Event(FALSE, FALSE, FALSE, "model", "text",  "hi")
EvUserHi      == Event(FALSE, FALSE, FALSE, "user",  "text",  "hi")
EvAudio       == Event(FALSE, FALSE, FALSE, "model", "audio", "0102")
EvEmpty       == Event(FALSE, FALSE, FALSE, "None",  "none",  "")
EvTurnDone    == Event(TRUE,  FALSE, FALSE, "None",  "none",  "")
EvInterrupted == Event(FALSE, TRUE,  TRUE,  "model", "text",  "hi")

Events == {EvPartialH, EvPartialHi, EvFinalHi, EvUserHi, EvAudio, EvEmpty,
           EvTurnDone, EvInterrupted}
CoreEvents == {EvPartialHi}

ControlFrame(e) ==
    [turn_complete |-> e.turn_complete, interrupted |-> e.interrupted]

TextFrame(e) ==
    [mime_type |-> "text/plain", data |-> e.payload, role |-> e.role]

AudioFrame(e) ==
    [mime_type |-> "audio/pcm", data |-> B64Encode(e.payload)]

\* Mutant of EventFrames: the content of an event with a control flag is
\* forwarded after its control frame.
EventFramesControlThenContent(e) ==
    (IF e.turn_complete \/ e.interrupted THEN <<ControlFrame(e)>> ELSE <<>>)
    \o (IF e.kind = "audio" /\ e.payload # "" THEN <<AudioFrame(e)>>
        ELSE IF e.kind = "text" /\ e.payload # "" /\ e.partial /\ e.role = "model"
        THEN <<TextFrame(e)>>
        ELSE IF e.kind = "text" /\ e.payload # "" /\ e.role = "user"
        THEN <<TextFrame(e)>>
        ELSE <<>>)

\* Mutant of EventFrames: every text chunk is forwarded, whatever its role
\* and whether partial or final.
EventFramesAnyText(e) ==
    IF e.turn_complete \/ e.interrupted THEN <<ControlFrame(e)>>
    ELSE IF e.kind = "none" THEN <<>>
    ELSE IF e.kind = "audio" /\ e.payload # "" THEN <<AudioFrame(e)>>
    ELSE IF e.kind = "text" /\ e.payload # "" THEN <<TextFrame(e)>>
    ELSE <<>>

\* Mutant of EventFrames: model text is forwarded when the chunk is final
\* instead of when it is partial.
EventFramesFinalOnly(e) ==
    IF e.turn_complete \/ e.interrupted THEN <<ControlFrame(e)>>
    ELSE IF e.kind = "text" /\ e.payload # "" /\ ~e.partial
    THEN <<TextFrame(e)>>
    ELSE <<>>

\* The frames (none or one) the loop body sends for event e.
EventFrames(e) ==
    IF e.turn_complete \/ e.interrupted THEN <<ControlFrame(e)>>
    ELSE IF e.kind = "none" THEN <<>>
    ELSE IF e.kind = "audio" /\ e.payload # "" THEN <<AudioFrame(e)>>
    ELSE IF e.kind = "text" /\ e.payload # "" /\ e.partial /\ e.role = "model"
    THEN <<TextFrame(e)>>
    ELSE IF e.kind = "text" /\ e.payload # "" /\ e.role = "user"
    THEN <<TextFrame(e)>>
    ELSE <<>>

SessionInfoFrame(u, sid) ==
    [mime_type |-> "application/json", event |-> "session_info",
     user_id |-> u, session_id |-> sid]

(***************************************************************************)
(* The TaskGroup and the handler's except clauses.                         *)
(***************************************************************************)

NoException == [class |-> "None", inner |-> "None"]

\* Mutant of TaskGroupRaises: task errors are collected and dropped.
TaskGroupSwallows(outState, err) == NoException

\* What "async with asyncio.TaskGroup()" raises once both tasks are done:
\* the errors of failed tasks wrapped in an ExceptionGroup; a cancelled or
\* returned task contributes nothing.
TaskGroupRaises(outState, err) ==
    IF outState = "raised"
    THEN [class |-> "ExceptionGroup", inner |-> err]
    ELSE NoException

\* The except clause of websocket_endpoint that handles exc: an
\* ExceptionGroup is not a WebSocketDisconnect, it is an Exception.
HandlerClause(exc) ==
    IF exc.class = "None" THEN "none"
    ELSE IF exc.class = "WebSocketDisconnect" THEN "graceful"
    ELSE "error"

\* Logger calls of the handler on its way out (except clauses and finally).
HandlerLog(exc) ==
    (CASE HandlerClause(exc) = "graceful" -> {"debug:disconnected_gracefully"}
       [] HandlerClause(exc) = "error" -> {"error:an_error_occurred"}
       [] OTHER -> {})
    \cup {"info:client_disconnected"}

\* Whether the TaskGroup cancels the other task when a task ends in `how`.
CancelsSibling(how) == how = "raised"

(***************************************************************************)
(* State machine.                                                          *)
(***************************************************************************)

\* Sessions in which agent runs of the banking agent take place.
ChartSessions == {"s1", "s2"}

\* _last_chart_info = None
NoChart == [chart |-> 0, session |-> "None", run |-> 0]

NoRun == [pc |-> "idle", no |-> 0, generated |-> 0, chart_info |-> NoChart,
          returned |-> "None", error |-> FALSE]

\* Module load of tools.py (_last_chart_info = None); no run has started.
ChartInit ==
    /\ last_chart_info = NoChart
    /\ runs = [s \in ChartSessions |-> NoRun]
    /\ artifacts = [s \in ChartSessions |-> <<>>]
    /\ state = [s \in ChartSessions |->
                   [last_artifact |-> "None", artifact_created |-> FALSE]]
    /\ nextChart = 1

chartVars == <<last_chart_info, runs, artifacts, state, nextChart>>

relayVars == <<hpc, user, force, sess, services, nextId, clientOpen, inPc, outPc,
               outErr, cancelReq, events, msgs, wire, queue, closes, log,
               shutdown_signal>>

Init ==
    /\ hpc = [c \in Conns |-> "idle"]
    /\ user = [c \in Conns |-> "None"]
    /\ force = [c \in Conns |-> FALSE]
    /\ sess = [c \in Conns |-> 0]
    /\ services = [c \in Conns |-> {}]
    /\ nextId = 1
    /\ clientOpen = [c \in Conns |-> FALSE]
    /\ inPc = [c \in Conns |-> "none"]
    /\ outPc = [c \in Conns |-> "none"]
    /\ outErr = [c \in Conns |-> "None"]
    /\ cancelReq = [c \in Conns |-> FALSE]
    /\ events = [c \in Conns |-> <<>>]
    /\ msgs = [c \in Conns |-> <<>>]
    /\ wire = [c \in Conns |-> <<>>]
    /\ queue = [c \in Conns |-> <<>>]
    /\ closes = [c \in Conns |-> 0]
    /\ log = [c \in Conns |-> {}]
    /\ shutdown_signal = FALSE
    /\ ChartInit

pumpVars == <<inPc, outPc, outErr, cancelReq, events, msgs, wire, queue>>
sessVars == <<user, force, sess, services, nextId>>

\* Mutant of Connect: admitting a session evicts the sessions of the other
\* runners.
ConnectEvicts(c, u, f, listFails) ==
    /\ hpc[c] = "idle"
    /\ \A d \in Conns : d < c => hpc[d] # "idle"
    /\ LET r == StartAgentSession(NewRunnerSessions, u, f, listFails, {}, nextId) IN
        /\ services' = [d \in Conns |-> IF d = c THEN r.store ELSE {}]
        /\ sess' = [sess EXCEPT ![c] = r.session]
        /\ nextId' = IF r.created THEN nextId + 1 ELSE nextId
    /\ hpc' = [hpc EXCEPT ![c] = "bound"]
    /\ user' = [user EXCEPT ![c] = u]
    /\ force' = [force EXCEPT ![c] = f]
    /\ clientOpen' = [clientOpen EXCEPT ![c] = TRUE]
    /\ UNCHANGED <<chartVars, pumpVars, closes, shutdown_signal, log>>

\* Mutant of Connect: a later connection takes over the event sequence of
\* the connection before it instead of starting a live run of its own.
ConnectReusesStream(c, u, f, listFails) ==
    /\ hpc[c] = "idle"
    /\ \A d \in Conns : d < c => hpc[d] # "idle"
    /\ LET r == StartAgentSession(NewRunnerSessions, u, f, listFails, {}, nextId) IN
        /\ services' = [services EXCEPT ![c] = r.store]
        /\ sess' = [sess EXCEPT ![c] = r.session]
        /\ nextId' = IF r.created THEN nextId + 1 ELSE nextId
    /\ hpc' = [hpc EXCEPT ![c] = "bound"]
    /\ user' = [user EXCEPT ![c] = u]
    /\ force' = [force EXCEPT ![c] = f]
    /\ clientOpen' = [clientOpen EXCEPT ![c] = TRUE]
    /\ events' = [events EXCEPT ![c] = IF c - 1 \in Conns THEN events[c - 1] ELSE @]
    /\ UNCHANGED <<chartVars, inPc, outPc, outErr, cancelReq, msgs, wire, queue, closes,
                   shutdown_signal, log>>

\* websocket_endpoint up to run_live: accept, read new_session, resolve the
\* session with a runner of its own, create the request queue and live run.
\* Connections are numbered in the order they arrive.
Connect(c, u, f, listFails) ==
    /\ hpc[c] = "idle"
    /\ \A d \in Conns : d < c => hpc[d] # "idle"
    /\ LET r == StartAgentSession(NewRunnerSessions, u, f, listFails, {}, nextId) IN
        /\ services' = [services EXCEPT ![c] = r.store]
        /\ sess' = [sess EXCEPT ![c] = r.session]
        /\ nextId' = IF r.created THEN nextId + 1 ELSE nextId
    /\ hpc' = [hpc EXCEPT ![c] = "bound"]
    /\ user' = [user EXCEPT ![c] = u]
    /\ force' = [force EXCEPT ![c] = f]
    /\ clientOpen' = [clientOpen EXCEPT ![c] = TRUE]
    /\ UNCHANGED <<chartVars, pumpVars, closes, shutdown_signal, log>>

\* The client goes away (closes the socket or loses the network).
ClientDisconnect(c) ==
    /\ hpc[c] \in {"bound", "relaying"}
    /\ clientOpen[c]
    /\ clientOpen' = [clientOpen EXCEPT ![c] = FALSE]
    /\ UNCHANGED <<chartVars, hpc, sessVars, pumpVars, closes, shutdown_signal, log>>

\* Mutant of SendSessionInfo: the relay loops are started without the
\* session_info frame having been sent.
SendSessionInfoSkipped(c) ==
    /\ hpc[c] = "bound"
    /\ hpc' = [hpc EXCEPT ![c] = "relaying"]
    /\ inPc' = [inPc EXCEPT ![c] = "receiving"]
    /\ outPc' = [outPc EXCEPT ![c] = "running"]
    /\ UNCHANGED <<chartVars, sessVars, clientOpen, outErr, cancelReq, events, msgs,
                   wire, queue, closes, shutdown_signal, log>>

\* send_text of the session_info frame, then the TaskGroup starts both
\* loops. The send is outside the try: if it raises, the handler is left
\* through the exception and nothing after it runs.
SendSessionInfo(c) ==
    /\ hpc[c] = "bound"
    /\ IF clientOpen[c]
       THEN /\ wire' = [wire EXCEPT ![c] = <<SessionInfoFrame(user[c], sess[c])>>]
            /\ hpc' = [hpc EXCEPT ![c] = "relaying"]
            /\ inPc' = [inPc EXCEPT ![c] = "receiving"]
            /\ outPc' = [outPc EXCEPT ![c] = "running"]
       ELSE /\ hpc' = [hpc EXCEPT ![c] = "aborted"]
            /\ UNCHANGED <<wire, inPc, outPc>>
    /\ UNCHANGED <<chartVars, sessVars, clientOpen, outErr, cancelReq, events, msgs,
                   queue, closes, shutdown_signal, log>>

\* handle_websocket_messages: receive_text returns message m; one pass of
\* the loop body.
InboundReceive(c, m) ==
    /\ inPc[c] = "receiving"
    /\ ~cancelReq[c]
    /\ clientOpen[c]
    /\ LET r == HandleMessage(m) IN
        /\ queue' = [queue EXCEPT ![c] = @ \o r.put]
        /\ log' = [log EXCEPT ![c] = @ \cup r.log]
        /\ inPc' = [inPc EXCEPT ![c] = IF r.continue THEN "receiving" ELSE "returned"]
    /\ msgs' = [msgs EXCEPT ![c] = Append(@, m)]
    /\ UNCHANGED <<chartVars, hpc, sessVars, clientOpen, outPc, outErr, cancelReq, events,
                   wire, closes, shutdown_signal>>

\* handle_websocket_messages: receive_text raises WebSocketDisconnect; the
\* loop logs at debug level, breaks, and the task returns normally.
InboundDisconnect(c) ==
    /\ inPc[c] = "receiving"
    /\ ~cancelReq[c]
    /\ ~clientOpen[c]
    /\ inPc' = [inPc EXCEPT ![c] = "returned"]
    /\ cancelReq' = cancelReq
    /\ log' = [log EXCEPT ![c] = @ \cup {"debug:ws_disconnected"}]
    /\ UNCHANGED <<chartVars, hpc, sessVars, clientOpen, outPc, outErr, events, msgs,
                   wire, queue, closes, shutdown_signal>>

\* Mutant of InboundCancelled: an except clause of the loop catches the
\* cancellation and the loop goes back to receive_text.
InboundCancelledSwallowed(c) ==
    /\ inPc[c] = "receiving"
    /\ cancelReq[c]
    /\ cancelReq' = [cancelReq EXCEPT ![c] = FALSE]
    /\ log' = [log EXCEPT ![c] = @ \cup {"error:processing_message"}]
    /\ UNCHANGED <<chartVars, hpc, sessVars, clientOpen, inPc, outPc, outErr, events,
                   msgs, wire, queue, closes, shutdown_signal>>

\* handle_websocket_messages: the pending receive_text raises CancelledError,
\* which no except clause of the loop catches.
InboundCancelled(c) ==
    /\ inPc[c] = "receiving"
    /\ cancelReq[c]
    /\ inPc' = [inPc EXCEPT ![c] = "cancelled"]
    /\ UNCHANGED <<chartVars, hpc, sessVars, clientOpen, outPc, outErr, cancelReq, events,
                   msgs, wire, queue, closes, shutdown_signal, log>>

\* Mutant of OutboundEnds: a raising outbound task cancels the inbound task
\* of every connection.
OutboundEndsCancelsAll(c, how, err) ==
    /\ outPc' = [outPc EXCEPT ![c] = how]
    /\ outErr' = [outErr EXCEPT ![c] = err]
    /\ cancelReq' = [d \in Conns |->
                        cancelReq[d] \/ (CancelsSibling(how) /\ inPc[d] = "receiving")]

\* The outbound task ends in `how` with exception err: the TaskGroup cancels
\* the inbound task if it is still running and the end was a raise.
OutboundEnds(c, how, err) ==
    /\ outPc' = [outPc EXCEPT ![c] = how]
    /\ outErr' = [outErr EXCEPT ![c] = err]
    /\ cancelReq' = [cancelReq EXCEPT ![c] =
                        @ \/ (CancelsSibling(how) /\ inPc[c] = "receiving")]

\* Mutant of OutboundEvent: the loop returns after the control frame of a
\* turn_complete or interrupted event.
OutboundEventStopsAtTurnEnd(c, e) ==
    /\ outPc[c] = "running"
    /\ events' = [events EXCEPT ![c] = Append(@, e)]
    /\ IF EventFrames(e) = <<>>
       THEN UNCHANGED <<wire, outPc, outErr, cancelReq>>
       ELSE IF clientOpen[c]
       THEN /\ wire' = [wire EXCEPT ![c] = @ \o EventFrames(e)]
            /\ IF e.turn_complete \/ e.interrupted
               THEN OutboundEnds(c, "returned", "None")
               ELSE UNCHANGED <<outPc, outErr, cancelReq>>
       ELSE /\ OutboundEnds(c, "raised", "WebSocketDisconnect")
            /\ UNCHANGED wire
    /\ UNCHANGED <<chartVars, hpc, sessVars, clientOpen, inPc, msgs, queue, closes, shutdown_signal, log>>

\* receive_and_process_responses: live_events yields event e; one pass of
\* the loop body. A send to a client that has gone raises.
OutboundEvent(c, e) ==
    /\ outPc[c] = "running"
    /\ events' = [events EXCEPT ![c] = Append(@, e)]
    /\ IF EventFrames(e) = <<>>
       THEN UNCHANGED <<wire, outPc, outErr, cancelReq>>
       ELSE IF clientOpen[c]
       THEN /\ wire' = [wire EXCEPT ![c] = @ \o EventFrames(e)]
            /\ UNCHANGED <<outPc, outErr, cancelReq>>
       ELSE /\ OutboundEnds(c, "raised", "WebSocketDisconnect")
            /\ UNCHANGED wire
    /\ UNCHANGED <<chartVars, hpc, sessVars, clientOpen, inPc, msgs, queue, closes, shutdown_signal, log>>

\* receive_and_process_responses: live_events is exhausted; the task returns.
OutboundExhausted(c) ==
    /\ outPc[c] = "running"
    /\ OutboundEnds(c, "returned", "None")
    /\ UNCHANGED <<chartVars, hpc, sessVars, clientOpen, inPc, events, msgs, wire, queue,
                   closes, shutdown_signal, log>>

\* receive_and_process_responses: live_events raises an agent error.
OutboundAgentError(c) ==
    /\ outPc[c] = "running"
    /\ OutboundEnds(c, "raised", "AgentError")
    /\ UNCHANGED <<chartVars, hpc, sessVars, clientOpen, inPc, events, msgs, wire, queue,
                   closes, shutdown_signal, log>>

\* Mutant of HandlerExit: the handler deletes its session on the way out.
HandlerExitRemovesSession(c) ==
    /\ hpc[c] = "relaying"
    /\ inPc[c] \in {"returned", "cancelled"}
    /\ outPc[c] \in {"returned", "raised"}
    /\ hpc' = [hpc EXCEPT ![c] = "closed"]
    /\ services' = [services EXCEPT ![c] = {}]
    /\ UNCHANGED <<chartVars, user, force, sess, nextId, clientOpen, pumpVars, closes,
                   shutdown_signal, log>>

\* Both tasks are done: the TaskGroup exits, the except clauses and the
\* finally clause run, websocket_endpoint returns.
HandlerExit(c) ==
    /\ hpc[c] = "relaying"
    /\ inPc[c] \in {"returned", "cancelled"}
    /\ outPc[c] \in {"returned", "raised"}
    /\ hpc' = [hpc EXCEPT ![c] = "closed"]
    /\ log' = [log EXCEPT ![c] = @ \cup HandlerLog(TaskGroupRaises(outPc[c], outErr[c]))]
    /\ UNCHANGED <<chartVars, sessVars, clientOpen, pumpVars, closes, shutdown_signal>>

\* Mutant of Shutdown: the shutdown part of lifespan also removes every
\* session and closes every request queue.
ShutdownDrains ==
    /\ ~shutdown_signal
    /\ shutdown_signal' = TRUE
    /\ services' = [c \in Conns |-> {}]
    /\ closes' = [c \in Conns |-> IF hpc[c] = "idle" THEN 0 ELSE 1]
    /\ UNCHANGED <<chartVars, hpc, user, force, sess, nextId, clientOpen, pumpVars, log>>

\* lifespan after the yield: the server leaves the lifespan context,
\* shutdown_signal.set() runs, and completion is logged.
Shutdown ==
    /\ ~shutdown_signal
    /\ shutdown_signal' = TRUE
    /\ UNCHANGED <<chartVars, hpc, sessVars, clientOpen, pumpVars, closes, log>>

\* Messages and events taken so far, over all connections.
RECURSIVE TotalLen(_, _)
TotalLen(f, D) ==
    IF D = {} THEN 0
    ELSE LET d == CHOOSE x \in D : TRUE IN Len(f[d]) + TotalLen(f, D \ {d})

\* Several connections, short exchanges.
Next ==
    \E c \in Conns :
        \/ \E u \in Users, f \in BOOLEAN, lf \in BOOLEAN : Connect(c, u, f, lf)
        \/ ClientDisconnect(c)
        \/ SendSessionInfo(c)
        \/ \E m \in CoreMessages :
              TotalLen(msgs, Conns) < MaxCoreMsgs /\ InboundReceive(c, m)
        \/ InboundDisconnect(c)
        \/ InboundCancelled(c)
        \/ \E e \in CoreEvents :
              TotalLen(events, Conns) < MaxCoreEvents /\ OutboundEvent(c, e)
        \/ OutboundExhausted(c)
        \/ OutboundAgentError(c)
        \/ HandlerExit(c)

Spec == Init /\ [][Next]_vars

\* Several connections, and the server shutting down.
NextShutdown ==
    \/ Shutdown
    \/ \E c \in Conns :
        \/ \E u \in Users, f \in BOOLEAN, lf \in BOOLEAN : Connect(c, u, f, lf)
        \/ ClientDisconnect(c)
        \/ SendSessionInfo(c)
        \/ TotalLen(msgs, Conns) < MaxCoreMsgs /\ InboundReceive(c, MsgText)
        \/ InboundDisconnect(c)
        \/ InboundCancelled(c)
        \/ \E e \in CoreEvents :
              TotalLen(events, Conns) < MaxCoreEvents /\ OutboundEvent(c, e)
        \/ OutboundExhausted(c)
        \/ OutboundAgentError(c)
        \/ HandlerExit(c)

SpecShutdown == Init /\ [][NextShutdown]_vars

\* One connection, every kind of agent event.
NextOutbound ==
    \/ \E f \in BOOLEAN, lf \in BOOLEAN : Connect(1, "u1", f, lf)
    \/ ClientDisconnect(1)
    \/ SendSessionInfo(1)
    \/ Len(msgs[1]) < MaxCoreMsgs /\ InboundReceive(1, MsgText)
    \/ InboundDisconnect(1)
    \/ InboundCancelled(1)
    \/ \E e \in Events : Len(events[1]) < MaxEvents /\ OutboundEvent(1, e)
    \/ OutboundExhausted(1)
    \/ OutboundAgentError(1)
    \/ HandlerExit(1)

SpecOutbound == Init /\ [][NextOutbound]_vars

\* One connection, every kind of client message.
NextInbound ==
    \/ \E f \in BOOLEAN, lf \in BOOLEAN : Connect(1, "u1", f, lf)
    \/ ClientDisconnect(1)
    \/ SendSessionInfo(1)
    \/ \E m \in Messages : Len(msgs[1]) < MaxMsgs /\ InboundReceive(1, m)
    \/ InboundDisconnect(1)
    \/ InboundCancelled(1)
    \/ \E e \in CoreEvents : Len(events[1]) < MaxCoreEvents /\ OutboundEvent(1, e)
    \/ OutboundExhausted(1)
    \/ OutboundAgentError(1)
    \/ HandlerExit(1)

SpecInbound == Init /\ [][NextInbound]_vars

\* The same, with the event loop running whatever step is possible.
SpecInboundFair == SpecInbound /\ WF_vars(NextInbound)

(***************************************************************************)
(* The outbound loop with the send of a frame as a suspension point of its *)
(* own: taking an event and completing `await websocket.send_text` are two *)
(* steps, and the send completes when the client accepts the data.         *)
(***************************************************************************)

\* Mutant of OutboundTake: the next event is taken while the send of the
\* previous frame is still pending.
OutboundTakeWhileSending(c, e) ==
    /\ outPc[c] \in {"running", "sending"}
    /\ events' = [events EXCEPT ![c] = Append(@, e)]
    /\ outPc' = [outPc EXCEPT ![c] =
                    IF EventFrames(e) = <<>> THEN @ ELSE "sending"]
    /\ UNCHANGED <<chartVars, hpc, sessVars, clientOpen, inPc, outErr, cancelReq, msgs, wire,
                   queue, closes, shutdown_signal, log>>

\* receive_and_process_responses: live_events yields event e; the loop body
\* runs up to its `await websocket.send_text`, or to the end of the body
\* when e has no frame.
OutboundTake(c, e) ==
    /\ outPc[c] = "running"
    /\ events' = [events EXCEPT ![c] = Append(@, e)]
    /\ outPc' = [outPc EXCEPT ![c] =
                    IF EventFrames(e) = <<>> THEN @ ELSE "sending"]
    /\ UNCHANGED <<chartVars, hpc, sessVars, clientOpen, inPc, outErr, cancelReq, msgs, wire,
                   queue, closes, shutdown_signal, log>>

\* receive_and_process_responses: the pending send_text completes (the
\* client has accepted the frame) or raises because the client has gone.
OutboundSendCompletes(c) ==
    /\ outPc[c] = "sending"
    /\ IF clientOpen[c]
       THEN /\ wire' = [wire EXCEPT ![c] =
                          @ \o EventFrames(events[c][Len(events[c])])]
            /\ outPc' = [outPc EXCEPT ![c] = "running"]
            /\ UNCHANGED <<outErr, cancelReq>>
       ELSE /\ OutboundEnds(c, "raised", "WebSocketDisconnect")
            /\ UNCHANGED wire
    /\ UNCHANGED <<chartVars, hpc, sessVars, clientOpen, inPc, events, msgs, queue, closes,
                   shutdown_signal, log>>

NextBackpressure ==
    \/ \E f \in BOOLEAN, lf \in BOOLEAN : Connect(1, "u1", f, lf)
    \/ ClientDisconnect(1)
    \/ SendSessionInfo(1)
    \/ Len(msgs[1]) < MaxCoreMsgs /\ InboundReceive(1, MsgText)
    \/ InboundDisconnect(1)
    \/ InboundCancelled(1)
    \/ \E e \in Events : Len(events[1]) < MaxEvents /\ OutboundTake(1, e)
    \/ OutboundSendCompletes(1)
    \/ OutboundExhausted(1)
    \/ OutboundAgentError(1)
    \/ HandlerExit(1)

SpecBackpressure == Init /\ [][NextBackpressure]_vars

(***************************************************************************)
(* start_agent_session on its own, applied to a session service that       *)
(* already holds sessions.                                                 *)
(***************************************************************************)

PreloadSessions ==
    {[user |-> "u1", id |-> 1], [user |-> "u1", id |-> 2], [user |-> "u2", id |-> 3]}

InitStore ==
    /\ hpc = [c \in Conns |-> "idle"]
    /\ user = [c \in Conns |-> "None"]
    /\ force = [c \in Conns |-> FALSE]
    /\ sess = [c \in Conns |-> 0]
    /\ \E S \in SUBSET PreloadSessions :
          services = [c \in Conns |-> IF c = 1 THEN S ELSE {}]
    /\ nextId = 4
    /\ clientOpen = [c \in Conns |-> FALSE]
    /\ inPc = [c \in Conns |-> "none"]
    /\ outPc = [c \in Conns |-> "none"]
    /\ outErr = [c \in Conns |-> "None"]
    /\ cancelReq = [c \in Conns |-> FALSE]
    /\ events = [c \in Conns |-> <<>>]
    /\ msgs = [c \in Conns |-> <<>>]
    /\ wire = [c \in Conns |-> <<>>]
    /\ queue = [c \in Conns |-> <<>>]
    /\ closes = [c \in Conns |-> 0]
    /\ log = [c \in Conns |-> {}]
    /\ shutdown_signal = FALSE
    /\ ChartInit

\* One call start_agent_session(u, f) on the session service services[1];
\* log[1] records the branch taken.
Resolve(u, f, listFails, delFails) ==
    /\ nextId <= MaxStoreIds
    /\ LET r == StartAgentSession(services[1], u, f, listFails, delFails, nextId) IN
        /\ services' = [services EXCEPT ![1] = r.store]
        /\ sess' = [sess EXCEPT ![1] = r.session]
        /\ nextId' = IF r.created THEN nextId + 1 ELSE nextId
        /\ log' = [log EXCEPT ![1] = {r.path}]
    /\ user' = [user EXCEPT ![1] = u]
    /\ force' = [force EXCEPT ![1] = f]
    /\ UNCHANGED <<chartVars, hpc, clientOpen, pumpVars, closes, shutdown_signal>>

NextStore ==
    \E u \in Users, f \in BOOLEAN, lf \in BOOLEAN :
        \E df \in SUBSET {s.id : s \in ListSessions(services[1], u)} :
            Resolve(u, f, lf, df)

SpecStore == InitStore /\ [][NextStore]_vars

(***************************************************************************)
(* Charts: direct_chart_generator stores a rendered chart in the module    *)
(* global _last_chart_info; after_agent_callback of the handling agent     *)
(* turns it into an artifact of the session the callback runs in.          *)
(***************************************************************************)

\* artifact_name = f"{safe_title}_{timestamp}.png" for the chart's title
ArtifactName(info) == <<"chart", info.chart, "png">>

\* An agent run starts in session s.
RunStart(s) ==
    /\ runs[s].pc \in {"idle", "done"}
    /\ runs[s].no < MaxRuns
    /\ runs' = [runs EXCEPT ![s] =
                  [pc |-> "running", no |-> @.no + 1, generated |-> 0,
                   chart_info |-> NoChart, returned |-> "None", error |-> FALSE]]
    /\ UNCHANGED <<relayVars, last_chart_info, artifacts, state, nextChart>>

\* direct_chart_generator called by the run in session s: when rendering
\* succeeds the chart replaces whatever _last_chart_info held; when it
\* fails the slot is left alone.
DirectChartGenerator(s, ok) ==
    /\ runs[s].pc = "running"
    /\ nextChart <= MaxCharts
    /\ IF ok
       THEN /\ last_chart_info' = [chart |-> nextChart, session |-> s, run |-> runs[s].no]
            /\ runs' = [runs EXCEPT ![s].generated = nextChart]
       ELSE UNCHANGED <<last_chart_info, runs>>
    /\ nextChart' = nextChart + 1
    /\ UNCHANGED <<relayVars, artifacts, state>>

\* after_agent_callback of the run in session s, up to its
\* `await callback_context.save_artifact`: it reads _last_chart_info and
\* returns None when that is None.
CallbackReads(s) ==
    /\ runs[s].pc = "running"
    /\ runs' = [runs EXCEPT ![s] =
                  IF last_chart_info = NoChart
                  THEN [@ EXCEPT !.pc = "done", !.returned = "None"]
                  ELSE [@ EXCEPT !.pc = "saving", !.chart_info = last_chart_info]]
    /\ UNCHANGED <<relayVars, last_chart_info, artifacts, state, nextChart>>

\* after_agent_callback of the run in session s, from the completion of
\* save_artifact: the state keys are set, _last_chart_info is cleared and
\* the content with the image is returned; a save that raises is logged and
\* None is returned.
CallbackSaved(s, ok) ==
    /\ runs[s].pc = "saving"
    /\ IF ok
       THEN /\ artifacts' = [artifacts EXCEPT ![s] =
                               Append(@, [name |-> ArtifactName(runs[s].chart_info),
                                          image |-> runs[s].chart_info,
                                          run |-> runs[s].no])]
            /\ state' = [state EXCEPT ![s] =
                           [last_artifact |-> ArtifactName(runs[s].chart_info),
                            artifact_created |-> TRUE]]
            /\ last_chart_info' = NoChart
            /\ runs' = [runs EXCEPT ![s] =
                          [@ EXCEPT !.pc = "done", !.returned = "Content"]]
       ELSE /\ runs' = [runs EXCEPT ![s] =
                          [@ EXCEPT !.pc = "done", !.returned = "None", !.error = TRUE]]
            /\ UNCHANGED <<artifacts, state, last_chart_info>>
    /\ UNCHANGED <<relayVars, nextChart>>

NextChart ==
    \E s \in ChartSessions :
        \/ RunStart(s)
        \/ \E ok \in BOOLEAN : DirectChartGenerator(s, ok)
        \/ CallbackReads(s)
        \/ \E ok \in BOOLEAN : CallbackSaved(s, ok)

SpecChart == Init /\ [][NextChart]_vars

(***************************************************************************)
(* Properties.                                                             *)
(***************************************************************************)

InboundEnded(c) == inPc[c] \in {"returned", "cancelled"}
OutboundEnded(c) == outPc[c] \in {"returned", "raised"}

\* Sessions held by the session services of the runners of open handlers.
LiveSessions == UNION {services[c] : c \in {d \in Conns : hpc[d] \in {"bound", "relaying"}}}

\* C1: whenever one loop of a connection's pump pair has terminated, the
\* other one has terminated too or has a cancellation pending.
C1_EitherEndCancelsOther ==
    \A c \in Conns :
        /\ InboundEnded(c) => outPc[c] # "running"
        /\ OutboundEnded(c) => (inPc[c] # "receiving" \/ cancelReq[c])

\* C2: once the handler of a connection has left its TaskGroup and returned
\* (whichever way the loops ended), the request queue created for the
\* connection has been closed exactly once.
C2_HandleReleasedOnce ==
    \A c \in Conns : hpc[c] = "closed" => closes[c] = 1

RECURSIVE FramesOf(_)
FramesOf(evs) ==
    IF evs = <<>> THEN <<>> ELSE EventFrames(Head(evs)) \o FramesOf(Tail(evs))

\* The events whose frames have been sent: all events taken, except the
\* last one when its send raised.
SentEvents(c) ==
    IF outErr[c] = "WebSocketDisconnect"
    THEN SubSeq(events[c], 1, Len(events[c]) - 1)
    ELSE events[c]

ScenarioEvents == <<EvPartialH, EvPartialHi, EvTurnDone>>

ScenarioFrames ==
    << [mime_type |-> "text/plain", data |-> "h", role |-> "model"],
       [mime_type |-> "text/plain", data |-> "hi", role |-> "model"],
       [turn_complete |-> TRUE, interrupted |-> FALSE] >>

\* C3: the frames the client receives after session_info are the frames of
\* the agent events, in the order of the events; for the events partial "h",
\* partial "hi", turn_complete they are two text frames and a control frame.
C3_FramesInEventOrder ==
    \A c \in Conns :
        wire[c] # <<>> =>
            /\ Tail(wire[c]) = FramesOf(SentEvents(c))
            /\ SentEvents(c) = ScenarioEvents => Tail(wire[c]) = ScenarioFrames

C3_Witness ==
    /\ msgs[1] = <<MsgText>>
    /\ queue[1] = <<[kind |-> "content", role |-> "user", text |-> "hi"]>>
    /\ events[1] = ScenarioEvents
    /\ wire[1] = <<SessionInfoFrame("u1", sess[1])>> \o ScenarioFrames

\* C4: the sessions that exist for a key number at most one.
C4_OneSessionPerKey ==
    \A u \in Users : Cardinality({s \in LiveSessions : s.user = u}) <= 1

\* C5: a connection made without the new-session flag while an earlier
\* connection's session for the same key exists is bound to that session.
C5_ReconnectReusesSession ==
    \A c, d \in Conns :
        (d < c /\ hpc[c] \in {"bound", "relaying"} /\ hpc[d] \in {"bound", "relaying"}
           /\ user[c] = user[d] /\ ~force[c] /\ ~force[d])
        => sess[c] = sess[d]

\* C6: once a connection that asked for a new session has its fresh
\* session, no older session for the same key is left.
C6_ForcedNewLeavesNoOld ==
    \A c \in Conns :
        (hpc[c] \in {"bound", "relaying"} /\ force[c])
        => {s \in LiveSessions : s.user = user[c]} = {[user |-> user[c], id |-> sess[c]]}

Malformed(m) ==
    ~m.json \/ m.mime_type \notin {"text/plain", "audio/pcm", "audio/pcm;rate=16000", "image/jpeg"}

HasMalformed(c) == \E i \in 1..Len(msgs[c]) : Malformed(msgs[c][i])

\* The state of connection c.
ConnState(c) ==
    <<hpc[c], user[c], force[c], sess[c], services[c], clientOpen[c], inPc[c],
      outPc[c], outErr[c], cancelReq[c], events[c], wire[c], queue[c],
      closes[c], log[c]>>

\* C7 (as stated): a malformed client message terminates the inbound loop
\* of its connection.
C7_MalformedIsFatal ==
    \A c \in Conns : HasMalformed(c) => inPc[c] # "receiving"

\* C7 (amended): taking a malformed client message leaves the inbound loop
\* receiving, puts nothing into the request queue, logs an error when the
\* JSON is invalid or the type tag is missing, and changes neither a session
\* service nor anything of another connection.
C7_MalformedIsSkipped ==
    [][\A c \in Conns :
          (Len(msgs'[c]) = Len(msgs[c]) + 1 /\ Malformed(msgs'[c][Len(msgs'[c])]))
          => /\ inPc'[c] = "receiving"
             /\ queue'[c] = queue[c]
             /\ services' = services
             /\ (~msgs'[c][Len(msgs'[c])].json => "error:invalid_json" \in log'[c])
             /\ \A d \in Conns \ {c} : ConnState(d)' = ConnState(d)
             /\ msgs'[c][Len(msgs'[c])].mime_type = "video/mp4" => log'[c] = log[c]
      ]_vars

C7_Witness ==
    \E c \in Conns :
        /\ HasMalformed(c)
        /\ inPc[c] = "receiving"
        /\ "error:invalid_json" \in log[c]
        /\ [user |-> user[c], id |-> sess[c]] \in services[c]
        /\ \E d \in Conns \ {c} : hpc[d] = "relaying"

\* C8: a client disconnect, detected by the inbound loop or by the outbound
\* loop, is never logged as an error by the connection handler.
C8_DisconnectNotAnError ==
    \A c \in Conns :
        outErr[c] \in {"None", "WebSocketDisconnect"}
        => "error:an_error_occurred" \notin log[c]

\* C9 (as stated): after an agent stream failure the handler has logged
\* the error and returned, and the session is gone from the store.
C9_AgentFailureRemovesSession ==
    \A c \in Conns :
        (outErr[c] = "AgentError" /\ hpc[c] = "closed")
        => /\ "error:an_error_occurred" \in log[c]
           /\ [user |-> user[c], id |-> sess[c]] \notin services[c]

\* C9 (amended): an agent stream failure cancels the inbound loop, and once
\* the handler has returned it has logged the error; the session stays in
\* the session service it was created in.
C9_AgentFailureLoggedSessionKept ==
    \A c \in Conns :
        outErr[c] = "AgentError"
        => /\ outPc[c] = "raised"
           /\ inPc[c] # "receiving" \/ cancelReq[c]
           /\ hpc[c] = "closed" => "error:an_error_occurred" \in log[c]
           /\ services[c] = {[user |-> user[c], id |-> sess[c]]}

C9_Witness ==
    \E c \in Conns :
        /\ outErr[c] = "AgentError"
        /\ hpc[c] = "closed"
        /\ inPc[c] = "cancelled"
        /\ "error:an_error_occurred" \in log[c]

\* C10: after a connection has been torn down following a client
\* disconnect, its session is still in the store, where a later connection
\* for the same key finds it.
C10_SessionSurvivesForReconnect ==
    \A c, d \in Conns :
        (d < c /\ hpc[d] = "closed" /\ ~clientOpen[d] /\ hpc[c] \in {"bound", "relaying"}
           /\ user[c] = user[d] /\ ~force[c])
        => /\ [user |-> user[d], id |-> sess[d]] \in services[d]
           /\ [user |-> user[d], id |-> sess[d]] \in services[c]

\* C11 (as stated): once shutdown has completed, every session has been
\* removed and the request queue of every connection has been closed.
C11_ShutdownDrainsStore ==
    shutdown_signal =>
        \A c \in Conns : services[c] = {} /\ (hpc[c] # "idle" => closes[c] = 1)

\* C11 (amended): raising the shutdown signal only sets the flag: the step
\* removes no session, closes no request queue, and ends or cancels no loop.
C11_ShutdownOnlySetsSignal ==
    [][(~shutdown_signal /\ shutdown_signal')
       => /\ services' = services
          /\ closes' = closes
          /\ hpc' = hpc
          /\ inPc' = inPc /\ outPc' = outPc /\ cancelReq' = cancelReq
      ]_vars

C11_Witness ==
    /\ shutdown_signal
    /\ \A c \in Conns : hpc[c] = "relaying" /\ services[c] # {} /\ closes[c] = 0
    /\ user[1] # user[2]

\* C12: a loop that passes a suspension point (takes a client message or an
\* agent event) while the shutdown signal is raised terminates instead of
\* suspending again.
C12_LoopsObserveShutdown ==
    [][\A c \in Conns :
          /\ (shutdown_signal /\ msgs'[c] # msgs[c]) => inPc'[c] # "receiving"
          /\ (shutdown_signal /\ events'[c] # events[c]) => outPc'[c] # "running"
      ]_vars

HandlerOpen(c) == hpc[c] \in {"bound", "relaying"}

\* C13: two connections for the same key that have both resolved their
\* session and not yet sent session_info hold one and the same session.
C13_ConcurrentResolveOneSession ==
    \A u \in Users :
        Cardinality({sess[c] : c \in {d \in Conns : hpc[d] = "bound" /\ user[d] = u}}) <= 1

\* C14 (as stated, with MaxSessions = 1): the sessions held for open
\* connections never number more than MaxSessions.
C14_StoreWithinCapacity == Cardinality(LiveSessions) <= 1

\* C14 (amended): there is no capacity: every connection that has resolved
\* its session holds exactly that one session in its runner's session
\* service, and the sessions number as many as the connections made.
C14_OneSessionPerConnection ==
    /\ \A c \in Conns :
          IF hpc[c] = "idle" THEN services[c] = {}
          ELSE services[c] = {[user |-> user[c], id |-> sess[c]]}
    /\ Cardinality(UNION {services[c] : c \in Conns})
          = Cardinality({c \in Conns : hpc[c] # "idle"})

C14_Witness ==
    /\ \A c \in Conns : HandlerOpen(c)
    /\ user[1] # user[2]
    /\ Cardinality(LiveSessions) = 2

\* C15 (as stated, with MaxSessions = 1): when a second key is admitted
\* while the first key's session fills the store, the first session has been
\* evicted and its agent handle closed.
C15_OverflowEvictsOldest ==
    (HandlerOpen(1) /\ HandlerOpen(2) /\ user[1] # user[2])
    => services[1] = {} /\ closes[1] = 1

\* C15 (amended): resolving the session of a new connection evicts nothing:
\* the sessions of all other connections stay, bound as before, and no
\* request queue is closed.
C15_ConnectEvictsNothing ==
    [][\A c \in Conns :
          (hpc[c] = "idle" /\ hpc'[c] = "bound")
          => /\ \A d \in Conns \ {c} : services'[d] = services[d] /\ sess'[d] = sess[d]
             /\ closes' = closes
      ]_vars

C15_Witness ==
    /\ hpc[1] = "relaying" /\ msgs[1] = <<>> /\ events[1] = <<>>
    /\ hpc[2] = "bound"
    /\ user[1] = "u1" /\ user[2] = "u2"
    /\ services[1] = {[user |-> "u1", id |-> sess[1]]}

\* C17 (as stated): a session whose connection is over, and which therefore
\* sees no more activity, is eventually removed from the store.
C17_IdleSessionRemoved ==
    \A c \in Conns : (hpc[c] = "closed") ~> (services[c] = {})

\* C17 (amended): no step ever removes a session or closes a request
\* queue, however long the session has been without activity.
C17_SessionNeverRemoved ==
    [][\A c \in Conns : services[c] \subseteq services'[c] /\ closes'[c] = closes[c]]_vars

C17_Witness ==
    /\ hpc[1] = "closed"
    /\ msgs[1] = <<>> /\ events[1] = <<>>
    /\ services[1] = {[user |-> "u1", id |-> sess[1]]}
    /\ closes[1] = 0

C19_ConnectionsIndependent ==
    [][\A c \in Conns :
          /\ (ConnState(c)' # ConnState(c) \/ msgs'[c] # msgs[c])
             => \A d \in Conns \ {c} :
                   ConnState(d)' = ConnState(d) /\ msgs'[d] = msgs[d]
          /\ queue'[c] # queue[c]
             => /\ Len(msgs'[c]) = Len(msgs[c]) + 1
                /\ queue'[c] = queue[c] \o HandleMessage(msgs'[c][Len(msgs'[c])]).put
      ]_vars

C19_Witness ==
    /\ outErr[1] = "AgentError"
    /\ inPc[1] = "cancelled"
    /\ hpc[1] = "closed"
    /\ queue[1] = <<>>
    /\ hpc[2] = "relaying"
    /\ inPc[2] = "receiving" /\ outPc[2] = "running" /\ ~cancelReq[2]
    /\ msgs[2] = <<MsgText>>
    /\ Len(queue[2]) = 1

\* C20: with the client connected, taking a turn_complete or interrupted
\* event appends exactly one control frame and leaves the outbound loop
\* running with no error; the loop returns only in a step that takes no
\* event (the event sequence has ended), and a handler whose outbound loop
\* returned logs no error.
C20_TurnEndKeepsLoopRunning ==
    [][\A c \in Conns :
          /\ (Len(events'[c]) = Len(events[c]) + 1 /\ clientOpen[c])
             => LET e == events'[c][Len(events'[c])] IN
                (e.turn_complete \/ e.interrupted)
                => /\ wire'[c] = Append(wire[c], ControlFrame(e))
                   /\ outPc'[c] = "running"
                   /\ outErr'[c] = "None"
          /\ (outPc[c] = "running" /\ outPc'[c] = "returned")
             => events'[c] = events[c] /\ outErr'[c] = "None"
          /\ outPc'[c] = "returned" => "error:an_error_occurred" \notin log'[c]
      ]_vars

C20_Witness ==
    /\ events[1] = <<EvTurnDone, EvPartialHi, EvInterrupted>>
    /\ wire[1] = <<SessionInfoFrame("u1", sess[1]), ControlFrame(EvTurnDone),
                   TextFrame(EvPartialHi), ControlFrame(EvInterrupted)>>
    /\ outPc[1] = "returned"
    /\ hpc[1] = "closed"
    /\ log[1] \cap {"error:an_error_occurred"} = {}

\* A text chunk with no control flag.
PlainText(e) ==
    ~e.turn_complete /\ ~e.interrupted /\ e.kind = "text" /\ e.payload # ""

\* C21 (as stated): every text chunk with no control flag taken while the
\* client is connected is sent as exactly one text/plain frame with the
\* chunk's text and role.
C21_EveryTextForwarded ==
    [][\A c \in Conns :
          (Len(events'[c]) = Len(events[c]) + 1 /\ clientOpen[c]
             /\ PlainText(events'[c][Len(events'[c])]))
          => wire'[c] = Append(wire[c], TextFrame(events'[c][Len(events'[c])]))
      ]_vars

\* C21 (amended): a text chunk with no control flag is sent as exactly one
\* text/plain frame with its text and role when it is a partial chunk of
\* role model or a chunk of role user; a final chunk of role model is not
\* sent. The loop keeps running in both cases.
C21_PartialModelAndUserTextForwarded ==
    [][\A c \in Conns :
          (Len(events'[c]) = Len(events[c]) + 1 /\ clientOpen[c]
             /\ PlainText(events'[c][Len(events'[c])]))
          => LET e == events'[c][Len(events'[c])] IN
             /\ ((e.partial /\ e.role = "model") \/ e.role = "user")
                => wire'[c] = Append(wire[c], TextFrame(e))
             /\ (~e.partial /\ e.role = "model") => wire'[c] = wire[c]
             /\ outPc'[c] = "running"
      ]_vars

C21_Witness ==
    /\ events[1] = <<EvFinalHi, EvPartialH, EvUserHi>>
    /\ clientOpen[1]
    /\ wire[1] = <<SessionInfoFrame("u1", sess[1]), TextFrame(EvPartialH),
                   TextFrame(EvUserHi)>>

\* The messages of a sequence that are valid JSON with one of the three
\* payload types, in order.
RECURSIVE WellFormedOf(_)
WellFormedOf(ms) ==
    IF ms = <<>> THEN <<>>
    ELSE LET m == Head(ms) IN
         (IF m.json /\ (m.mime_type \in {"text/plain", "image/jpeg"}
                          \/ StartsWithAudioPcm(m.mime_type))
          THEN <<m>> ELSE <<>>) \o WellFormedOf(Tail(ms))

ScenarioMessages == <<MsgAudio, MsgText, MsgImage>>

ScenarioQueue ==
    << [kind |-> "realtime", mime_type |-> "audio/pcm;rate=16000", data |-> "0102"],
       [kind |-> "content", role |-> "user", text |-> "hi"],
       [kind |-> "realtime", mime_type |-> "image/jpeg", data |-> "ffd8"] >>

\* C22: the request queue of a connection holds one item for each
\* well-formed text, audio or image message received on it, in the order
\* received and nothing else: a user-role content item for text, a realtime
\* blob of the decoded bytes for audio and for an image frame.
C22_MessagesForwardedOnceInOrder ==
    \A c \in Conns :
        LET wf == WellFormedOf(msgs[c]) IN
        /\ Len(queue[c]) = Len(wf)
        /\ \A i \in 1..Len(wf) :
              IF wf[i].mime_type = "text/plain"
              THEN queue[c][i] = [kind |-> "content", role |-> "user", text |-> wf[i].data]
              ELSE /\ queue[c][i].kind = "realtime"
                   /\ queue[c][i].mime_type = wf[i].mime_type
                   /\ B64Encode(queue[c][i].data) = wf[i].data
        /\ msgs[c] = ScenarioMessages => queue[c] = ScenarioQueue

C22_Witness ==
    /\ msgs[1] = ScenarioMessages
    /\ queue[1] = ScenarioQueue
    /\ inPc[1] = "receiving"

\* C23: a connection that has just been accepted has an event sequence from
\* which nothing has been taken and an empty request queue, whatever earlier
\* connections have taken from theirs, and its live run is bound to the
\* session resolved for it; an event is taken from a connection's sequence
\* only by that connection's own running outbound loop, one at a time.
C23_NewLiveRunPerConnection ==
    [][\A c \in Conns :
          /\ (hpc[c] = "idle" /\ hpc'[c] = "bound")
             => /\ events'[c] = <<>> /\ queue'[c] = <<>>
                /\ outPc'[c] = "none" /\ inPc'[c] = "none"
                /\ [user |-> user'[c], id |-> sess'[c]] \in services'[c]
          /\ events'[c] # events[c]
             => /\ hpc[c] = "relaying" /\ outPc[c] = "running"
                /\ Len(events'[c]) = Len(events[c]) + 1
                /\ SubSeq(events'[c], 1, Len(events[c])) = events[c]
      ]_vars

C23_Witness ==
    /\ hpc[1] = "closed" /\ outPc[1] = "returned" /\ events[1] = <<EvPartialHi>>
    /\ hpc[2] = "relaying" /\ outPc[2] = "running" /\ events[2] = <<>>
    /\ user[2] = user[1] /\ ~force[2]
    /\ queue[2] = <<>>

\* Frames of the events taken on connection c that are not on the wire.
Undelivered(c) == Len(FramesOf(events[c])) - (Len(wire[c]) - 1)

NoInternalQueue(c) ==
    wire[c] # <<>> =>
        /\ Undelivered(c) \in {0, 1}
        /\ outPc[c] = "sending" => Undelivered(c) = 1
        /\ Undelivered(c) = 1 => outPc[c] \in {"sending", "raised"}

\* C24: at most one frame of an event taken from the stream is not yet
\* delivered, and only while its send is pending or has failed; while a
\* send is pending the loop takes no further event, however long the
\* client takes to accept the frame.
C24_OneEventInFlight ==
    [][\A c \in Conns :
          /\ NoInternalQueue(c) /\ NoInternalQueue(c)'
          /\ outPc[c] = "sending" => events'[c] = events[c]
      ]_vars

C24_Witness ==
    /\ outPc[1] = "sending"
    /\ clientOpen[1]
    /\ events[1] = <<EvPartialH, EvEmpty, EvPartialHi>>
    /\ wire[1] = <<SessionInfoFrame("u1", sess[1]), TextFrame(EvPartialH)>>
    /\ msgs[1] = <<MsgText>>

\* Number of artifacts, over all sessions, that hold chart n.
RECURSIVE SavedCount(_, _)
SavedCount(n, S) ==
    IF S = {} THEN 0
    ELSE LET s == CHOOSE x \in S : TRUE IN
         Cardinality({i \in DOMAIN artifacts[s] : artifacts[s][i].image.chart = n})
           + SavedCount(n, S \ {s})

\* C25: when the callback of a run has returned without an error, then if
\* direct_chart_generator succeeded in the run, the callback has saved that
\* chart as the latest artifact of its session, recorded its name in
\* last_artifact with artifact_created true, cleared the pending chart and
\* returned the content; if no chart was generated in the run, it has saved
\* nothing and returned None; and no chart is held by more than one
\* artifact.
C25_ChartSavedOnceByItsRun ==
    /\ \A s \in ChartSessions :
          (runs[s].pc = "done" /\ ~runs[s].error) =>
             IF runs[s].generated # 0
             THEN /\ runs[s].returned = "Content"
                  /\ artifacts[s] # <<>>
                  /\ artifacts[s][Len(artifacts[s])].image.chart = runs[s].generated
                  /\ artifacts[s][Len(artifacts[s])].run = runs[s].no
                  /\ state[s] = [last_artifact |->
                                    artifacts[s][Len(artifacts[s])].name,
                                 artifact_created |-> TRUE]
                  /\ last_chart_info.chart # runs[s].generated
             ELSE /\ runs[s].returned = "None"
                  /\ \A i \in DOMAIN artifacts[s] : artifacts[s][i].run # runs[s].no
    /\ \A n \in 1..MaxCharts : SavedCount(n, ChartSessions) <= 1

\* C30: every artifact holds a chart generated in the session and by the
\* run whose callback saved it, and a pending chart is replaced only by a
\* chart of the same run.
C30_ChartConsumedByOwnRun ==
    [][/\ \A s \in ChartSessions : \A i \in DOMAIN artifacts'[s] :
             /\ artifacts'[s][i].image.session = s
             /\ artifacts'[s][i].image.run = artifacts'[s][i].run
       /\ (last_chart_info # NoChart /\ last_chart_info' # NoChart
             /\ last_chart_info' # last_chart_info)
          => /\ last_chart_info'.session = last_chart_info.session
             /\ last_chart_info'.run = last_chart_info.run
      ]_vars

\* C26: once anything has happened on a connection beyond resolving its
\* session (a loop has started, a message or an event has been taken, a
\* frame has been sent), the first frame on the wire is the session_info
\* frame with the connection's user id and session id, and no later frame
\* is a session_info frame.
C26_SessionInfoFirstAndOnce ==
    \A c \in Conns :
        (inPc[c] # "none" \/ outPc[c] # "none" \/ msgs[c] # <<>>
           \/ events[c] # <<>> \/ wire[c] # <<>> \/ queue[c] # <<>>)
        => /\ wire[c] # <<>>
           /\ wire[c][1] = SessionInfoFrame(user[c], sess[c])
           /\ \A i \in 2..Len(wire[c]) :
                 \A u \in Users, n \in 0..nextId : wire[c][i] # SessionInfoFrame(u, n)

C26_Witness ==
    /\ hpc[1] = "relaying"
    /\ events[1] = <<EvAudio, EvTurnDone>>
    /\ wire[1] = <<SessionInfoFrame("u1", sess[1]), AudioFrame(EvAudio),
                   ControlFrame(EvTurnDone)>>
    /\ inPc[1] = "receiving" /\ outPc[1] = "running"

\* C27: when the outbound loop raises while the inbound loop is waiting in
\* receive_text, cancellation of the inbound task is requested; from then
\* on the inbound loop takes no message and can only end as cancelled; and
\* every connection whose outbound loop has raised eventually has both
\* tasks ended and its handler returned.
C27_OutboundFailureCancelsInbound ==
    /\ [][\A c \in Conns :
             /\ (outPc[c] # "raised" /\ outPc'[c] = "raised" /\ inPc[c] = "receiving")
                => cancelReq'[c]
             /\ (cancelReq[c] /\ inPc[c] = "receiving")
                => /\ msgs'[c] = msgs[c] /\ queue'[c] = queue[c]
                   /\ inPc'[c] \in {"receiving", "cancelled"}
                   /\ cancelReq'[c]
             /\ inPc[c] = "cancelled" => inPc'[c] = "cancelled"
         ]_vars
    /\ \A c \in Conns :
          (outPc[c] = "raised")
             ~> (hpc[c] = "closed" /\ inPc[c] \in {"cancelled", "returned"})

C27_Witness ==
    /\ outErr[1] = "WebSocketDisconnect"
    /\ outPc[1] = "raised"
    /\ inPc[1] = "cancelled"
    /\ hpc[1] = "closed"
    /\ msgs[1] = <<MsgAudio, MsgBadJson>>

EventShapes ==
    {Event(tc, intr, partial, role, kind, payload) :
        tc \in BOOLEAN, intr \in BOOLEAN, partial \in BOOLEAN,
        role \in {"model", "user", "None"}, kind \in {"text", "audio", "none"},
        payload \in {"", "hi", "0102"}}

\* C29: for an event with turn_complete or interrupted set the loop sends
\* exactly one frame, which carries the two flags and nothing else; the
\* text or audio the event carries appears in no frame.
C29_ControlEventOnlyControlFrame ==
    [][\A c \in Conns :
          (Len(events'[c]) = Len(events[c]) + 1 /\ clientOpen[c])
          => LET e == events'[c][Len(events'[c])] IN
             (e.turn_complete \/ e.interrupted)
             => /\ Len(wire'[c]) = Len(wire[c]) + 1
                /\ SubSeq(wire'[c], 1, Len(wire[c])) = wire[c]
                /\ wire'[c][Len(wire'[c])] =
                      [turn_complete |-> e.turn_complete, interrupted |-> e.interrupted]
                /\ \A x \in EventShapes :
                      (x.turn_complete \/ x.interrupted)
                      => EventFrames(x) = <<[turn_complete |-> x.turn_complete,
                                             interrupted |-> x.interrupted]>>
      ]_vars

C29_Witness ==
    /\ events[1] = <<EvPartialHi, EvInterrupted>>
    /\ EvInterrupted.payload = "hi" /\ EvInterrupted.kind = "text"
    /\ wire[1] = <<SessionInfoFrame("u1", sess[1]), TextFrame(EvPartialHi),
                   [turn_complete |-> FALSE, interrupted |-> TRUE]>>
    /\ outPc[1] = "running"

====
